---- MODULE Spec2Model ----
(***************************************************************************)
(* A model of upload.py: the edge-identifier grammar (EDGE_REGEX), the     *)
(* property serialisation of Neo4jItem.query_str, the statement builders   *)
(* create_node / create_edge, the two-phase upload_graph loop and the      *)
(* transaction handling of main.                                           *)
(*                                                                         *)
(* Representation.                                                         *)
(*  - An identifier that the regular expression inspects (an edge id, a    *)
(*    node id) is a sequence of one-character strings.                     *)
(*  - Labels, property keys and role identifiers are strings.  A property  *)
(*    value is written as its JSON literal, so the JSON null (None after   *)
(*    json.load) is the literal "null" and differs from every string,      *)
(*    number or boolean literal.                                           *)
(*  - A Python dict whose iteration order matters (properties, nodes,      *)
(*    edges) is a sequence of <<key, value>> pairs with distinct keys; a   *)
(*    dict that is only looked up (bound parameters) is a function.        *)
(*  - A statement text is the sequence of the pieces the f-strings         *)
(*    concatenate; Text(pieces) is the string itself.                      *)
(***************************************************************************)
EXTENDS Integers, Sequences, FiniteSets, TLC

VARIABLES
    args_clear,   \* main: args.clear
    nodes,        \* main: nodes, the dict nid -> Node
    edges,        \* main: edges, the dict eid -> Edge
    pc,           \* position of main
    i,            \* index of the running loop of upload_graph
    tx,           \* the transaction handle of main (0 before begin_transaction)
    calls,        \* the calls made to the store collaborator, in order
    ex,           \* the exception raised inside the try block, if any
    committed,    \* the store: its committed content
    working,      \* the store: the content as the open transaction sees it
    begun,        \* the committed content when this invocation of main began
    past,         \* the earlier invocations of main: content at begin and at end
    eid_in,       \* grammar run: the edge id handed to EDGE_REGEX.match
    match,        \* grammar run: the result of EDGE_REGEX.match
    item_in,      \* serialiser run: the item query_str is called on
    ident_in,     \* serialiser run: the identifier argument
    qs,           \* serialiser run: the result of query_str
    fpc           \* grammar and serialiser runs: "idle" before the call, "called" after

vars == <<args_clear, nodes, edges, pc, i, tx, calls, ex,
          committed, working, begun, past,
          eid_in, match, item_in, ident_in, qs, fpc>>

storeVars == <<committed, working, begun, past>>
mainVars  == <<args_clear, nodes, edges, pc, i, tx, calls, ex, storeVars>>
parseVars == <<eid_in, match>>
queryVars == <<item_in, ident_in, qs>>
pureVars  == <<eid_in, match, item_in, ident_in, qs, fpc>>

----------------------------------------------------------------------------
(* Bounds of the model.                                                    *)

MaxNodes == 2     \* nodes of a description
MaxEdges == 2     \* edges of a description
MaxEidLen == 5    \* characters of an edge id handed to the grammar
MaxProps == 2     \* properties of an item handed to the serialiser
MaxRuns == 2      \* successive invocations of main on one store

----------------------------------------------------------------------------
(* Python dicts.                                                           *)

None == "null"

Range(s) == {s[n] : n \in DOMAIN s}

DictKeys(d) == {d[n][1] : n \in DOMAIN d}

DictHas(d, k) == k \in DictKeys(d)

DictGet(d, k) == d[CHOOSE n \in DOMAIN d : d[n][1] = k][2]

EmptyDict == [k \in {} |-> None]

\* {**a, **b}
DictMerge(a, b) ==
    [k \in DOMAIN a \cup DOMAIN b |-> IF k \in DOMAIN b THEN b[k] ELSE a[k]]

RECURSIVE Text(_)
Text(pieces) ==
    IF pieces = <<>> THEN "" ELSE Head(pieces) \o Text(Tail(pieces))

\* All sequences over S of length at most n, and those without repeated keys.
SeqsUpTo(S, n) == UNION {[1..m -> S] : m \in 0..n}

DictsUpTo(K, V, n) ==
    {d \in SeqsUpTo(K \X V, n) :
        \A a, b \in DOMAIN d : a # b => d[a][1] # d[b][1]}

----------------------------------------------------------------------------
(* The identifier grammar, lines 11-12.                                    *)

Letters ==
    {"a","b","c","d","e","f","g","h","i","j","k","l","m",
     "n","o","p","q","r","s","t","u","v","w","x","y","z",
     "A","B","C","D","E","F","G","H","I","J","K","L","M",
     "N","O","P","Q","R","S","T","U","V","W","X","Y","Z"}

Digits == {"0","1","2","3","4","5","6","7","8","9"}

\* A variant of the character class without the escaped hyphen.
NODE_ID_PATTERN_NoHyphen == Letters \cup Digits \cup {".", ",", "_", " "}

\* The character class of NODE_ID_PATTERN: [a-zA-Z0-9.,\-_ ]
NODE_ID_PATTERN == Letters \cup Digits \cup {".", ",", "-", "_", " "}

\* The alternation (<-|->), as character pairs.
DirectionTokens == {<<"<", "-">>, <<"-", ">">>}

EDGE_REGEX_pattern == "([a-zA-Z0-9.,\\-_ ]+)(<-|->)([a-zA-Z0-9.,\\-_ ]+)"

NoMatch == [matched |-> FALSE]

\* Length of the longest run of id characters of s that starts at position from.
RECURSIVE GreedyRun(_, _)
GreedyRun(s, from) ==
    IF from <= Len(s) /\ s[from] \in NODE_ID_PATTERN
    THEN 1 + GreedyRun(s, from + 1)
    ELSE 0

SetMax(S) == CHOOSE m \in S : \A n \in S : n <= m

\* The lengths of group 1 from which the rest of the pattern can still match:
\* a direction token follows and at least one id character follows the token.
Group1Lengths(s) ==
    {k \in 1..GreedyRun(s, 1) :
        /\ k + 3 <= Len(s)
        /\ <<s[k + 1], s[k + 2]>> \in DirectionTokens
        /\ s[k + 3] \in NODE_ID_PATTERN}

\* EDGE_REGEX.match(eid): anchored at the start of eid only.  Group 1 is greedy
\* and backtracks, so the longest workable length is taken; group 3 is greedy
\* and last, so it takes the whole run of id characters after the token.
EDGE_REGEX_match(eid) ==
    IF Group1Lengths(eid) = {}
    THEN NoMatch
    ELSE LET k == SetMax(Group1Lengths(eid))
             r == GreedyRun(eid, k + 3)
         IN  [matched |-> TRUE,
              group1  |-> SubSeq(eid, 1, k),
              group2  |-> eid[k + 1] \o eid[k + 2],
              group3  |-> SubSeq(eid, k + 3, k + 2 + r),
              end     |-> k + 2 + r]

----------------------------------------------------------------------------
(* The graph item model and the property serialiser, lines 25-78.          *)

Node(label, properties) ==
    [cls |-> "Node", label |-> label, properties |-> properties]

Edge(label, properties) ==
    [cls |-> "Edge", label |-> label, properties |-> properties]

OPENING(self) == IF self.cls = "Node" THEN "(" ELSE "["

CLOSING(self) == IF self.cls = "Node" THEN ")" ELSE "]"

\* A variant of the filter that tests the truth value instead of "is not None".
FilterPropertiesTruthy(properties) ==
    SelectSeq(properties, LAMBDA kv : kv[2] \notin {"null", "0", "\"\"", "false"})

\* A variant of the filter that keeps every property.
FilterPropertiesKeepsAll(properties) ==
    SelectSeq(properties, LAMBDA kv : TRUE)

\* line 51: the dict comprehension that drops the None-valued properties
FilterProperties(properties) ==
    SelectSeq(properties, LAMBDA kv : kv[2] # None)

ParamName(identifier, k) == identifier \o "_" \o k

\* line 54: ", ".join(f"{k}: ${identifier}_{k}" for k in properties)
RECURSIVE JoinPlaceholders(_, _)
JoinPlaceholders(properties, identifier) ==
    IF properties = <<>> THEN <<>>
    ELSE <<Head(properties)[1], ": ", "$", ParamName(identifier, Head(properties)[1])>>
         \o (IF Len(properties) > 1 THEN <<", ">> ELSE <<>>)
         \o JoinPlaceholders(Tail(properties), identifier)

\* line 57: {f"{identifier}_{k}": v for k, v in properties.items()}
RECURSIVE BoundParams(_, _)
BoundParams(properties, identifier) ==
    IF properties = <<>> THEN EmptyDict
    ELSE LET last == properties[Len(properties)]
             init == SubSeq(properties, 1, Len(properties) - 1)
         IN  DictMerge(BoundParams(init, identifier),
                       [p \in {ParamName(identifier, last[1])} |-> last[2]])

query_str(self, identifier) ==
    LET properties == FilterProperties(self.properties)
        start == <<identifier, ": ", self.label, " ">>
        mid   == <<"{">> \o JoinPlaceholders(properties, identifier) \o <<"}">>
    IN  [text   |-> <<OPENING(self)>> \o start \o mid \o <<CLOSING(self)>>,
         params |-> BoundParams(properties, identifier)]

\* lines 75-78; a token that is no key of the table has no value (KeyError)
DIRECTION_NAME_TABLE(token) ==
    CASE token = "->" -> "RIGHT"
      [] token = "<-" -> "LEFT"

----------------------------------------------------------------------------
(* The query builder, lines 81-114.  Each builder yields the arguments of  *)
(* the tx.run call it makes.                                               *)

create_node(node) ==
    LET q == query_str(node, "n")
    IN  [query |-> <<"CREATE ">> \o q.text, params |-> q.params]

\* A variant of left_symbol that tests for the other direction.
left_symbol_inverted(direction) == IF direction = "RIGHT" THEN "<-" ELSE "-"

\* line 102
left_symbol(direction) == IF direction = "LEFT" THEN "<-" ELSE "-"

\* line 103
right_symbol(direction) == IF direction = "RIGHT" THEN "->" ELSE "-"

\* A variant of create_edge whose match clauses name every property of the
\* endpoints, the None-valued ones included.
create_edge_unfiltered(node1, node2, edge, direction) ==
    LET all(self, identifier) ==
            [text   |-> <<OPENING(self), identifier, ": ", self.label, " ", "{">>
                        \o JoinPlaceholders(self.properties, identifier)
                        \o <<"}", CLOSING(self)>>,
             params |-> BoundParams(self.properties, identifier)]
        n1 == all(node1, "n1")
        n2 == all(node2, "n2")
        e  == query_str(edge, "n")
    IN  [query  |-> <<"\n        MATCH ">> \o n1.text
                    \o <<"\n        MATCH ">> \o n2.text
                    \o <<"\n        CREATE (n1)", left_symbol(direction)>>
                    \o e.text
                    \o <<right_symbol(direction), "(n2)", "\n    ">>,
         params |-> DictMerge(DictMerge(n1.params, n2.params), e.params)]

\* A variant of create_edge that calls query_str with its default identifier
\* for the endpoints too.
create_edge_default_identifier(node1, node2, edge, direction) ==
    LET n1 == query_str(node1, "n")
        n2 == query_str(node2, "n")
        e  == query_str(edge, "n")
    IN  [query  |-> <<"\n        MATCH ">> \o n1.text
                    \o <<"\n        MATCH ">> \o n2.text
                    \o <<"\n        CREATE (n1)", left_symbol(direction)>>
                    \o e.text
                    \o <<right_symbol(direction), "(n2)", "\n    ">>,
         params |-> DictMerge(DictMerge(n1.params, n2.params), e.params)]

create_edge(node1, node2, edge, direction) ==
    LET n1 == query_str(node1, "n1")
        n2 == query_str(node2, "n2")
        e  == query_str(edge, "n")
    IN  [query  |-> <<"\n        MATCH ">> \o n1.text
                    \o <<"\n        MATCH ">> \o n2.text
                    \o <<"\n        CREATE (n1)", left_symbol(direction)>>
                    \o e.text
                    \o <<right_symbol(direction), "(n2)", "\n    ">>,
         params |-> DictMerge(DictMerge(n1.params, n2.params), e.params)]

DELETE_RELATIONSHIPS == <<"MATCH (a)-[e]-(b) DELETE e;">>

DELETE_NODES == <<"MATCH (n) DELETE n;">>

----------------------------------------------------------------------------
(* The property-graph store behind the transaction.  Its content is a      *)
(* sequence of nodes, each a label and a set of <<key, value>> properties, *)
(* and a bag of relationships between positions of that sequence.  The     *)
(* store reads a statement by its clauses and placeholders.                *)

MATCH_PIECE == "\n        MATCH "

CREATE_PIECE == "\n        CREATE (n1)"

\* The pieces of an item start at its opening bracket: identifier, ": ",
\* label, " ", "{" follow, then for each property the key, ": ", "$" and the
\* parameter name, with ", " between properties, then "}" and the closing
\* bracket.  Labels and keys go into the text unchecked (lines 53-54), so the
\* readers below go by position and test only pieces the code itself writes.

\* The position of the "}" of the item whose "{" is followed by position at.
RECURSIVE ClauseClose(_, _)
ClauseClose(q, at) ==
    IF q[at + 1] = ": "
    THEN ClauseClose(q, IF q[at + 4] = ", " THEN at + 5 ELSE at + 4)
    ELSE at

\* The positions of the keys of that item.
RECURSIVE KeyPositions(_, _)
KeyPositions(q, at) ==
    IF q[at + 1] = ": "
    THEN {at} \cup KeyPositions(q, IF q[at + 4] = ", " THEN at + 5 ELSE at + 4)
    ELSE {}

\* The <<key, bound value>> pairs of the item whose opening bracket is at open.
ClauseKV(q, params, open) ==
    {<<q[n], params[q[n + 3]]>> : n \in KeyPositions(q, open + 6)}

\* The second MATCH piece: two past the "}" of the first item, which opens at 2.
SecondMatch(q) == ClauseClose(q, 8) + 2

\* The CREATE piece: two past the "}" of the second item.
CreateAt(q) == ClauseClose(q, SecondMatch(q) + 7) + 2

\* The "(n2)" piece: three past the "}" of the edge item, which opens two
\* past the CREATE piece.
N2At(q) == ClauseClose(q, CreateAt(q) + 8) + 3

EmptyBag == [r \in {} |-> 0]

EmptyStore == [nodes |-> <<>>, rels |-> EmptyBag]

BagAdd(b, S) ==
    [r \in DOMAIN b \cup S |->
        (IF r \in DOMAIN b THEN b[r] ELSE 0) + (IF r \in S THEN 1 ELSE 0)]

\* The positions of the nodes a match clause of this label and these
\* properties finds: a node may have more properties than the clause names.
Matching(store, label, kv) ==
    {n \in DOMAIN store.nodes :
        store.nodes[n].label = label /\ kv \subseteq store.nodes[n].props}

\* CREATE (n: label {...}): one new node, whatever the store holds.
StoreCreateNode(store, q, p) ==
    [store EXCEPT !.nodes =
        Append(@, [label |-> q[5], props |-> ClauseKV(q, p, 2)])]

\* MATCH ... MATCH ... CREATE (n1)..(n2): one relationship per pair of matches.
StoreCreateEdge(store, q, p) ==
    LET m2    == SecondMatch(q)
        c     == CreateAt(q)
        e2    == N2At(q)
        ones  == Matching(store, q[5], ClauseKV(q, p, 2))
        twos  == Matching(store, q[m2 + 4], ClauseKV(q, p, m2 + 1))
        right == q[e2 - 1] = "->"
        new   == {[src   |-> IF right THEN ab[1] ELSE ab[2],
                   dst   |-> IF right THEN ab[2] ELSE ab[1],
                   label |-> q[c + 5],
                   props |-> ClauseKV(q, p, c + 2)] : ab \in ones \X twos}
    IN  [store EXCEPT !.rels = BagAdd(@, new)]

\* The content after a statement that the store accepted.  The delete of all
\* nodes is only ever issued after the delete of all relationships.
StoreApply(store, stmt) ==
    IF stmt.query = <<"MATCH (a)-[e]-(b) DELETE e;">>
    THEN [store EXCEPT !.rels = EmptyBag]
    ELSE IF stmt.query = <<"MATCH (n) DELETE n;">>
    THEN [store EXCEPT !.nodes = <<>>]
    ELSE IF stmt.query[1] = "CREATE "
    THEN StoreCreateNode(store, stmt.query, stmt.params)
    ELSE StoreCreateEdge(store, stmt.query, stmt.params)

----------------------------------------------------------------------------
(* The store collaborator: a call is recorded when it is made; ok tells    *)
(* whether the store returned or raised.                                   *)

Call(op, query, params, ok) ==
    [op |-> op, tx |-> tx, query |-> query, params |-> params, ok |-> ok]

TxRun(stmt, ok) ==
    /\ calls' = Append(calls, Call("run", stmt.query, stmt.params, ok))
    /\ working' = IF ok THEN StoreApply(working, stmt) ELSE working

NoException == [kind |-> "none"]

StoreError == [kind |-> "store"]

\* lines 131-133
MalformedEdge(eid) ==
    [kind |-> "malformed", eid |-> eid, pattern |-> EDGE_REGEX_pattern]

\* lines 140-142
UnknownNode(eid, nid) ==
    [kind |-> "unknown_node", eid |-> eid, nid |-> nid]

----------------------------------------------------------------------------
(* upload_graph, lines 116-150: where control goes when a loop is entered. *)

\* A variant of NodesLoop that enters the edge loop without the node loop.
NodesLoopSkipped == IF Len(edges) > 0 THEN "edges" ELSE "commit"

EdgesLoop == IF Len(edges) > 0 THEN "edges" ELSE "commit"

NodesLoop == IF Len(nodes) > 0 THEN "nodes" ELSE EdgesLoop

\* The body of the edge loop up to the create_edge call: the exception it
\* raises, or NoException.
EdgeCheck(eid) ==
    LET m == EDGE_REGEX_match(eid)
    IN  IF ~m.matched THEN MalformedEdge(eid)
        ELSE IF ~DictHas(nodes, m.group1) THEN UnknownNode(eid, m.group1)
        ELSE IF ~DictHas(nodes, m.group3) THEN UnknownNode(eid, m.group3)
        ELSE NoException

\* lines 144-150
EdgeStatement(eid, edge) ==
    LET m == EDGE_REGEX_match(eid)
    IN  create_edge(DictGet(nodes, m.group1), DictGet(nodes, m.group3),
                    edge, DIRECTION_NAME_TABLE(m.group2))

----------------------------------------------------------------------------
(* main, lines 177-192.                                                    *)

\* A variant of Begin with the test of args.clear inverted.
BeginClearInverted ==
    /\ pc = "main"
    /\ \E ok \in BOOLEAN :
         /\ tx' = IF ok THEN 1 ELSE tx
         /\ pc' = IF ok THEN (IF ~args_clear THEN "clear1" ELSE NodesLoop) ELSE "crash"
    /\ working' = committed
    /\ UNCHANGED <<args_clear, nodes, edges, i, calls, ex, committed, begun, past, pureVars>>

\* A variant of Begin that clears whatever args.clear says.
BeginAlwaysClears ==
    /\ pc = "main"
    /\ \E ok \in BOOLEAN :
         /\ tx' = IF ok THEN 1 ELSE tx
         /\ pc' = IF ok THEN "clear1" ELSE "crash"
    /\ working' = committed
    /\ UNCHANGED <<args_clear, nodes, edges, i, calls, ex, committed, begun, past, pureVars>>

\* line 177, and the test of line 180.  begin_transaction stands before the
\* try block of line 179: when it raises, the exception leaves main with no
\* transaction, no statement and no rollback.
Begin ==
    /\ pc = "main"
    /\ \E ok \in BOOLEAN :
         /\ tx' = IF ok THEN 1 ELSE tx
         /\ pc' = IF ok THEN (IF args_clear THEN "clear1" ELSE NodesLoop) ELSE "crash"
    /\ working' = committed
    /\ UNCHANGED <<args_clear, nodes, edges, i, calls, ex, committed, begun, past, pureVars>>

\* line 181
ClearRelationships ==
    /\ pc = "clear1"
    /\ \E ok \in BOOLEAN :
         /\ TxRun([query |-> DELETE_RELATIONSHIPS, params |-> EmptyDict], ok)
         /\ pc' = IF ok THEN "clear2" ELSE "except"
         /\ ex' = IF ok THEN ex ELSE StoreError
    /\ UNCHANGED <<args_clear, nodes, edges, i, tx, committed, begun, past, pureVars>>

\* A variant of ClearNodes that issues the statement of line 181 again.
ClearNodesRepeatsFirst ==
    /\ pc = "clear2"
    /\ \E ok \in BOOLEAN :
         /\ TxRun([query |-> DELETE_RELATIONSHIPS, params |-> EmptyDict], ok)
         /\ pc' = IF ok THEN NodesLoop ELSE "except"
         /\ ex' = IF ok THEN ex ELSE StoreError
    /\ UNCHANGED <<args_clear, nodes, edges, i, tx, committed, begun, past, pureVars>>

\* line 182
ClearNodes ==
    /\ pc = "clear2"
    /\ \E ok \in BOOLEAN :
         /\ TxRun([query |-> DELETE_NODES, params |-> EmptyDict], ok)
         /\ pc' = IF ok THEN NodesLoop ELSE "except"
         /\ ex' = IF ok THEN ex ELSE StoreError
    /\ UNCHANGED <<args_clear, nodes, edges, i, tx, committed, begun, past, pureVars>>

\* A variant of CreateNode that leaves the node loop after its first statement.
CreateNodeOnce ==
    /\ pc = "nodes"
    /\ \E ok \in BOOLEAN :
         /\ TxRun(create_node(nodes[i][2]), ok)
         /\ pc' = IF ~ok THEN "except" ELSE EdgesLoop
         /\ i' = IF ~ok THEN i ELSE 1
         /\ ex' = IF ok THEN ex ELSE StoreError
    /\ UNCHANGED <<args_clear, nodes, edges, tx, committed, begun, past, pureVars>>

\* lines 124-125: one iteration of the node loop
CreateNode ==
    /\ pc = "nodes"
    /\ \E ok \in BOOLEAN :
         /\ TxRun(create_node(nodes[i][2]), ok)
         /\ pc' = IF ~ok THEN "except"
                  ELSE IF i < Len(nodes) THEN "nodes" ELSE EdgesLoop
         /\ i' = IF ~ok THEN i ELSE IF i < Len(nodes) THEN i + 1 ELSE 1
         /\ ex' = IF ok THEN ex ELSE StoreError
    /\ UNCHANGED <<args_clear, nodes, edges, tx, committed, begun, past, pureVars>>

\* A variant of RejectEdge that skips the offending edge instead of raising.
RejectEdgeSkips ==
    /\ pc = "edges"
    /\ EdgeCheck(edges[i][1]) # NoException
    /\ pc' = IF i < Len(edges) THEN "edges" ELSE "commit"
    /\ i' = IF i < Len(edges) THEN i + 1 ELSE i
    /\ UNCHANGED <<args_clear, nodes, edges, tx, calls, ex, storeVars, pureVars>>

\* lines 127-150: one iteration of the edge loop that raises before create_edge
RejectEdge ==
    /\ pc = "edges"
    /\ EdgeCheck(edges[i][1]) # NoException
    /\ ex' = EdgeCheck(edges[i][1])
    /\ pc' = "except"
    /\ UNCHANGED <<args_clear, nodes, edges, i, tx, calls, storeVars, pureVars>>

\* A variant of CreateEdge that goes on with the loop when its statement fails.
CreateEdgeGoesOn ==
    /\ pc = "edges"
    /\ EdgeCheck(edges[i][1]) = NoException
    /\ \E ok \in BOOLEAN :
         /\ TxRun(EdgeStatement(edges[i][1], edges[i][2]), ok)
         /\ pc' = IF i < Len(edges) THEN "edges" ELSE IF ok THEN "commit" ELSE "except"
         /\ i' = IF i < Len(edges) THEN i + 1 ELSE i
         /\ ex' = IF ok THEN ex ELSE StoreError
    /\ UNCHANGED <<args_clear, nodes, edges, tx, committed, begun, past, pureVars>>

\* lines 127-150: one iteration of the edge loop that reaches create_edge
CreateEdge ==
    /\ pc = "edges"
    /\ EdgeCheck(edges[i][1]) = NoException
    /\ \E ok \in BOOLEAN :
         /\ TxRun(EdgeStatement(edges[i][1], edges[i][2]), ok)
         /\ pc' = IF ~ok THEN "except"
                  ELSE IF i < Len(edges) THEN "edges" ELSE "commit"
         /\ i' = IF ok /\ i < Len(edges) THEN i + 1 ELSE i
         /\ ex' = IF ok THEN ex ELSE StoreError
    /\ UNCHANGED <<args_clear, nodes, edges, tx, committed, begun, past, pureVars>>

\* A variant of Handler that commits what the run has issued so far.
HandlerCommits ==
    /\ pc = "except"
    /\ \E ok \in BOOLEAN :
         /\ calls' = Append(calls, Call("commit", <<>>, EmptyDict, ok))
         /\ committed' = IF ok THEN working ELSE committed
         /\ pc' = IF ok THEN "exit1" ELSE "crash"
    /\ UNCHANGED <<args_clear, nodes, edges, i, tx, ex, working, begun, past, pureVars>>

\* lines 186-190: the handler; an exception of rollback itself leaves main
Handler ==
    /\ pc = "except"
    /\ \E ok \in BOOLEAN :
         /\ calls' = Append(calls, Call("rollback", <<>>, EmptyDict, ok))
         /\ pc' = IF ok THEN "exit1" ELSE "crash"
    /\ working' = committed
    /\ UNCHANGED <<args_clear, nodes, edges, i, tx, ex, committed, begun, past, pureVars>>

\* A variant of Commit that commits a transaction begun for the purpose.
CommitOtherTransaction ==
    /\ pc = "commit"
    /\ \E ok \in BOOLEAN :
         /\ calls' = Append(calls, [op |-> "commit", tx |-> tx + 1, query |-> <<>>,
                                    params |-> EmptyDict, ok |-> ok])
         /\ committed' = IF ok THEN working ELSE committed
         /\ pc' = IF ok THEN "done" ELSE "crash"
    /\ UNCHANGED <<args_clear, nodes, edges, i, tx, ex, working, begun, past, pureVars>>

\* line 192: outside the try block
Commit ==
    /\ pc = "commit"
    /\ \E ok \in BOOLEAN :
         /\ calls' = Append(calls, Call("commit", <<>>, EmptyDict, ok))
         /\ committed' = IF ok THEN working ELSE committed
         /\ pc' = IF ok THEN "done" ELSE "crash"
    /\ UNCHANGED <<args_clear, nodes, edges, i, tx, ex, working, begun, past, pureVars>>

----------------------------------------------------------------------------
(* The descriptions of the upload runs.                                    *)

\* Node ids of the descriptions.
NodeIdPool == {<<"A">>, <<"B">>}

\* Node items: two of one label that differ in a None-valued key only, and one
\* of another label whose property value is falsy but not None.
NodePool ==
    {Node("Person", <<<<"name", "\"a\"">>, <<"note", None>>>>),
     Node("Person", <<<<"name", "\"a\"">>>>),
     Node("City",   <<<<"note", None>>, <<"pop", "0">>>>)}

\* Edge ids: two well-formed ones of either direction, a self loop, one whose
\* right endpoint is no node, one without a direction token, and one that
\* starts as a well-formed edge and goes on with a character outside the class.
EdgeIdPool ==
    {<<"A", "-", ">", "B">>,
     <<"A", "<", "-", "B">>,
     <<"B", "-", ">", "B">>,
     <<"A", "-", ">", "Z">>,
     <<"A", "-", "B">>,
     <<"A", "-", ">", "B", "!">>}

EdgePool ==
    {Edge("KNOWS", <<>>),
     Edge("LIKES", <<<<"since", None>>, <<"name", "1">>>>)}

IdleItem == Node("", <<>>)

IdleQuery == [text |-> <<>>, params |-> EmptyDict]

PureIdle ==
    /\ eid_in = <<>>
    /\ match = NoMatch
    /\ item_in = IdleItem
    /\ ident_in = ""
    /\ qs = IdleQuery
    /\ fpc = "idle"

\* An empty store and no earlier invocation.
StoreIdle ==
    /\ committed = EmptyStore
    /\ working = EmptyStore
    /\ begun = EmptyStore
    /\ past = <<>>

MainIdle ==
    /\ args_clear = FALSE
    /\ nodes = <<>>
    /\ edges = <<>>
    /\ pc = "idle"
    /\ i = 1
    /\ tx = 0
    /\ calls = <<>>
    /\ ex = NoException
    /\ StoreIdle

\* lines 166-170: the state of main when the session is open
Init ==
    /\ args_clear \in BOOLEAN
    /\ nodes \in DictsUpTo(NodeIdPool, NodePool, MaxNodes)
    /\ edges \in DictsUpTo(EdgeIdPool, EdgePool, MaxEdges)
    /\ pc = "main"
    /\ i = 1
    /\ tx = 0
    /\ calls = <<>>
    /\ ex = NoException
    /\ StoreIdle
    /\ PureIdle

Next ==
    \/ Begin
    \/ ClearRelationships
    \/ ClearNodes
    \/ CreateNode
    \/ RejectEdge
    \/ CreateEdge
    \/ Handler
    \/ Commit

Spec == Init /\ [][Next]_vars

----------------------------------------------------------------------------
(* Reading the record of store calls.                                      *)

IsDelete(c) == c.op = "run" /\ c.query \in {DELETE_RELATIONSHIPS, DELETE_NODES}

IsNodeCreate(c) == c.op = "run" /\ c.query # <<>> /\ c.query[1] = "CREATE "

IsEdgeCreate(c) == c.op = "run" /\ c.query # <<>> /\ c.query[1] = MATCH_PIECE

IsCreate(c) == IsNodeCreate(c) \/ IsEdgeCreate(c)

NodeCalls == SelectSeq(calls, IsNodeCreate)

EdgeCalls == SelectSeq(calls, IsEdgeCreate)

CallsOf(op) == {n \in DOMAIN calls : calls[n].op = op}

Failed == ex # NoException

Terminated == pc \in {"done", "exit1", "crash"}

\* The character class as the specification words it.
IdCharacters == Letters \cup Digits \cup {".", ",", "-", "_", " "}

ValidId(s) == s # <<>> /\ \A n \in DOMAIN s : s[n] \in IdCharacters

\* The lengths k at which s reads as <left id of k characters><token><right id>.
SplitsOf(s) ==
    {k \in 1..(Len(s) - 3) :
        /\ ValidId(SubSeq(s, 1, k))
        /\ <<s[k + 1], s[k + 2]>> \in {<<"-", ">">>, <<"<", "-">>}
        /\ ValidId(SubSeq(s, k + 3, Len(s)))}

WellFormed(s) == SplitsOf(s) # {}

LeftOf(s) == SubSeq(s, 1, CHOOSE k \in SplitsOf(s) : TRUE)

RightOf(s) == SubSeq(s, (CHOOSE k \in SplitsOf(s) : TRUE) + 3, Len(s))

TokenOf(s) == LET k == CHOOSE n \in SplitsOf(s) : TRUE IN s[k + 1] \o s[k + 2]

\* The edge resolves: it reads as left, token, right and both ids are nodes.
Resolves(s) ==
    /\ WellFormed(s)
    /\ DictHas(nodes, LeftOf(s))
    /\ DictHas(nodes, RightOf(s))

----------------------------------------------------------------------------
(* Claims about the transaction, the phases and the rejection of edges.    *)

\* C1: once a failure has occurred while the clear statements, the node-create
\* statements or the edge phase run (a store statement raised, or an edge was
\* rejected), commit has not been called and is never called; the handler has
\* been entered, and when the run has ended its last store call is the rollback
\* of the run's transaction.
C1_FailureRollsBack ==
    /\ (\E n \in DOMAIN calls : calls[n].op = "run" /\ ~calls[n].ok) => Failed
    /\ Failed => /\ CallsOf("commit") = {}
                 /\ pc \in {"except", "exit1", "crash"}
    /\ Failed /\ Terminated =>
          /\ calls # <<>>
          /\ calls[Len(calls)].op = "rollback"
          /\ calls[Len(calls)].tx = tx
          /\ Cardinality(CallsOf("rollback")) = 1

\* A run whose edge-create statement failed in the store and that was rolled back.
C1_Witness ==
    /\ pc = "exit1"
    /\ ex = StoreError
    /\ \E n \in DOMAIN calls : IsEdgeCreate(calls[n]) /\ ~calls[n].ok
    /\ \E n \in DOMAIN calls : IsNodeCreate(calls[n]) /\ calls[n].ok

\* Every edge resolves, the transaction was opened and no statement failed.
AllSucceeds ==
    /\ tx = 1
    /\ \A n \in DOMAIN edges : Resolves(edges[n][1])
    /\ \A n \in DOMAIN calls : calls[n].op = "run" => calls[n].ok

\* C2: in a run in which every edge resolves, the transaction was opened and
\* every store statement succeeds, when the run has ended commit has been
\* called exactly once, as the last call, after one edge-create statement per edge, on the transaction
\* that carried every statement, and rollback has not been called; in no run
\* is a commit followed by another call.
C2_CommitOnceAtEnd ==
    /\ AllSucceeds /\ Terminated =>
          /\ Cardinality(CallsOf("commit")) = 1
          /\ calls[Len(calls)].op = "commit"
          /\ Len(EdgeCalls) = Len(edges)
          /\ CallsOf("rollback") = {}
          /\ \A n \in DOMAIN calls : calls[n].tx = 1
    /\ \A n \in CallsOf("commit") : n = Len(calls)

\* A cleared run of two nodes and two edges that was committed.
C2_Witness ==
    /\ AllSucceeds
    /\ pc = "done"
    /\ args_clear
    /\ Len(nodes) = 2
    /\ Len(edges) = 2
    /\ calls[Len(calls)].op = "commit"

\* C3: no edge-create statement precedes a node-create statement in the record
\* of calls, and whenever the edge loop is running, or an edge has been
\* rejected, every node of the description has had its create statement issued.
C3_NodesBeforeEdges ==
    /\ \A m \in DOMAIN calls :
          IsEdgeCreate(calls[m]) =>
              \A n \in DOMAIN calls : IsNodeCreate(calls[n]) => n < m
    /\ (pc = "edges" \/ EdgeCalls # <<>> \/ (Failed /\ ex # StoreError)) =>
          /\ Len(NodeCalls) = Len(nodes)
          /\ \A n \in DOMAIN NodeCalls :
                /\ NodeCalls[n].ok
                /\ NodeCalls[n].query = create_node(nodes[n][2]).query

\* Two node-create statements followed by an edge-create statement.
C3_Witness ==
    /\ Len(NodeCalls) = 2
    /\ Len(EdgeCalls) >= 1
    /\ pc = "edges"

\* C4: with clearing enabled, whenever a create statement has been issued the
\* first two calls are the delete-all-relationships statement and then the
\* delete-all-nodes statement, on the transaction of every later call (the
\* rollback included), and no other delete is issued; with clearing disabled
\* no delete statement is issued.
C4_ClearFirstSameTransaction ==
    /\ args_clear /\ (\E n \in DOMAIN calls : IsCreate(calls[n]) \/ calls[n].op = "commit") =>
          /\ Len(calls) > 2
          /\ calls[1].query = DELETE_RELATIONSHIPS /\ calls[1].ok
          /\ calls[2].query = DELETE_NODES /\ calls[2].ok
    /\ args_clear =>
          /\ \A n \in DOMAIN calls : calls[n].tx = calls[1].tx
          /\ \A n \in DOMAIN calls :
                /\ calls[n].query = DELETE_RELATIONSHIPS => n = 1
                /\ calls[n].query = DELETE_NODES => n = 2
    /\ ~args_clear => \A n \in DOMAIN calls : ~IsDelete(calls[n])

\* A cleared run that issued creates, failed and was rolled back on the
\* transaction of the deletes.
C4_Witness ==
    /\ args_clear
    /\ pc = "exit1"
    /\ Len(NodeCalls) >= 1
    /\ calls[Len(calls)].op = "rollback"
    /\ calls[Len(calls)].tx = calls[1].tx

\* The edge id parses and its parsed left or right id is no key of the node set.
Dangling(s) ==
    LET m == EDGE_REGEX_match(s)
    IN  m.matched /\ ~(DictHas(nodes, m.group1) /\ DictHas(nodes, m.group3))

\* C5: the k-th edge-create statement is issued only when neither parsed id of
\* the k-th edge is outside the node set; a run never reaches commit past a
\* dangling edge; and when the edge at hand is dangling the run raises the
\* unknown-node error, which names that edge and a parsed id that is no node,
\* with the node-create statements and the creates of the edges before it
\* issued, none for the edge itself, and commit never called.
C5_DanglingEdgeFails ==
    /\ \A k \in DOMAIN EdgeCalls : ~Dangling(edges[k][1])
    /\ pc \in {"commit", "done"} => \A k \in DOMAIN edges : ~Dangling(edges[k][1])
    /\ (Failed /\ ex # StoreError /\ Dangling(edges[i][1])) => ex.kind = "unknown_node"
    /\ ex.kind = "unknown_node" =>
          /\ ex.eid = edges[i][1]
          /\ Dangling(ex.eid)
          /\ ~DictHas(nodes, ex.nid)
          /\ ex.nid \in {EDGE_REGEX_match(ex.eid).group1, EDGE_REGEX_match(ex.eid).group3}
          /\ Len(EdgeCalls) = i - 1
          /\ Len(NodeCalls) = Len(nodes)
          /\ CallsOf("commit") = {}
          /\ Terminated => calls[Len(calls)].op = "rollback"

\* A run that created its nodes and one edge, met a dangling edge and was
\* rolled back.
C5_Witness ==
    /\ pc = "exit1"
    /\ ex.kind = "unknown_node"
    /\ ex.nid = <<"Z">>
    /\ Len(NodeCalls) = 2
    /\ Len(EdgeCalls) = 1
    /\ calls[Len(calls)].op = "rollback"

\* C7 (as claimed): an edge-create statement is issued only for an edge id that
\* is, in its entirety, a left id, one direction token and a right id; a run
\* never reaches commit past any other id; and the rejection of such an id is
\* the malformed-edge error carrying the id and the pattern.
C7_MalformedRejected ==
    /\ \A k \in DOMAIN EdgeCalls : WellFormed(edges[k][1])
    /\ pc \in {"commit", "done"} => \A k \in DOMAIN edges : WellFormed(edges[k][1])
    /\ (Failed /\ ex # StoreError /\ ~WellFormed(edges[i][1])) =>
          ex = MalformedEdge(edges[i][1])

----------------------------------------------------------------------------
(* Reading the items of a description.                                     *)

NonNull(item) == {kv \in Range(item.properties) : kv[2] # "null"}

PositionOf(d, k) == CHOOSE n \in DOMAIN d : d[n][1] = k

\* C9: for every edge-create statement issued, the keys and bound values of
\* the match clause of either endpoint are those of the create statement that
\* was issued for that node, and both are the node's properties without
\* exactly the None-valued ones.
C9_MatchUsesCreateFilter ==
    \A k \in DOMAIN EdgeCalls :
        LET m  == EDGE_REGEX_match(edges[k][1])
            q  == EdgeCalls[k].query
            p  == EdgeCalls[k].params
            ln == PositionOf(nodes, m.group1)
            rn == PositionOf(nodes, m.group3)
            created(n) == ClauseKV(NodeCalls[n].query, NodeCalls[n].params, 2)
        IN  /\ ClauseKV(q, p, 2) = created(ln)
            /\ created(ln) = NonNull(nodes[ln][2])
            /\ ClauseKV(q, p, SecondMatch(q) + 1) = created(rn)
            /\ created(rn) = NonNull(nodes[rn][2])

\* An edge-create statement whose left endpoint has a None-valued property.
C9_Witness ==
    \E k \in DOMAIN EdgeCalls :
        LET n == DictGet(nodes, EDGE_REGEX_match(edges[k][1]).group1)
        IN  /\ \E kv \in Range(n.properties) : kv[2] = None
            /\ \E kv \in Range(n.properties) : kv[2] # None

\* C10: for every edge-create statement issued for an edge id L+t+R, the first
\* match clause has role n1 and the label and non-null properties of the node
\* stored under L, the second has role n2 and those of the node stored under
\* R, and the create clause joins (n1) and (n2) by the edge's label with one
\* arrowhead: on the (n2) side when t is "->", on the (n1) side when t is "<-".
C10_DirectionAndRoles ==
    \A k \in DOMAIN EdgeCalls :
        WellFormed(edges[k][1]) =>
            LET eid == edges[k][1]
                q   == EdgeCalls[k].query
                p   == EdgeCalls[k].params
                m2  == SecondMatch(q)
                c   == CreateAt(q)
                L   == DictGet(nodes, LeftOf(eid))
                R   == DictGet(nodes, RightOf(eid))
            IN  /\ q[3] = "n1" /\ q[5] = L.label
                /\ ClauseKV(q, p, 2) = NonNull(L)
                /\ q[m2 + 2] = "n2" /\ q[m2 + 4] = R.label
                /\ ClauseKV(q, p, m2 + 1) = NonNull(R)
                /\ q[c + 2] = "[" /\ q[c + 5] = edges[k][2].label
                /\ <<q[c + 1], q[N2At(q) - 1]>> =
                       (IF TokenOf(eid) = "->" THEN <<"-", "->">> ELSE <<"<-", "-">>)

\* An edge-create statement for A<-B between two different nodes.
C10_Witness ==
    \E k \in DOMAIN EdgeCalls :
        /\ edges[k][1] = <<"A", "<", "-", "B">>
        /\ DictGet(nodes, <<"A">>) # DictGet(nodes, <<"B">>)
        /\ EdgeCalls[k].ok

----------------------------------------------------------------------------
(* Claims about the statements of a run and about its failures.            *)

\* C11: a run that ended in success has issued, in this order, the two delete
\* statements when clearing is enabled and none otherwise, then one
\* node-create statement per node of the description, the n-th for the n-th
\* node, then one edge-create statement per edge, the k-th for the k-th edge,
\* then the commit, and nothing else.
C11_OneStatementPerItem ==
    pc = "done" =>
        LET d == IF args_clear THEN 2 ELSE 0
        IN  /\ Len(calls) = d + Len(nodes) + Len(edges) + 1
            /\ Cardinality({n \in DOMAIN calls : IsDelete(calls[n])}) = d
            /\ \A n \in DOMAIN nodes :
                  /\ IsNodeCreate(calls[d + n])
                  /\ calls[d + n].query = create_node(nodes[n][2]).query
                  /\ calls[d + n].params = create_node(nodes[n][2]).params
            /\ \A k \in DOMAIN edges :
                  /\ IsEdgeCreate(calls[d + Len(nodes) + k])
                  /\ calls[d + Len(nodes) + k].query =
                        EdgeStatement(edges[k][1], edges[k][2]).query
            /\ Len(NodeCalls) = Len(nodes)
            /\ Len(EdgeCalls) = Len(edges)

\* A successful cleared run of two nodes and two edges.
C11_Witness ==
    /\ pc = "done"
    /\ args_clear
    /\ Len(NodeCalls) = 2
    /\ Len(EdgeCalls) = 2
    /\ Len(calls) = 7

\* C13 (as claimed): when a run has ended and a statement or the commit was
\* refused by the store, rollback has been called.
C13_StoreFailureRollsBack ==
    (Terminated /\ \E n \in DOMAIN calls :
                      calls[n].op \in {"run", "commit"} /\ ~calls[n].ok)
        => CallsOf("rollback") # {}

\* C16: from a state in which a statement has failed or an edge has been
\* rejected, a step makes no store call, or makes the one rollback call of the
\* run: no statement is issued or repeated and commit is not called.
C16_FirstFailureTerminal ==
    [][Failed =>
          \/ calls' = calls
          \/ /\ CallsOf("rollback") = {}
             /\ Len(calls') = Len(calls) + 1
             /\ SubSeq(calls', 1, Len(calls)) = calls
             /\ calls'[Len(calls')].op = "rollback"]_vars

\* A run of two nodes whose first node-create statement failed: the second
\* was not issued and the rollback followed.
C16_Witness ==
    /\ pc = "exit1"
    /\ Len(nodes) = 2
    /\ Len(calls) = 2
    /\ IsNodeCreate(calls[1]) /\ ~calls[1].ok
    /\ calls[2].op = "rollback"

\* The edges that are malformed or dangling.
BadEdges == {k \in DOMAIN edges : ~Resolves(edges[k][1])}

\* C18 (as claimed): when some edge is malformed or dangling and k is the first
\* such edge, at most the k-1 edge-create statements of the edges before it
\* are ever issued, the run does not reach commit, and when the rejection is
\* raised it is raised at edge k with all node-create statements and exactly
\* k-1 edge-create statements issued.
C18_ValidatedInOrder ==
    BadEdges # {} =>
        LET k == CHOOSE m \in BadEdges : \A n \in BadEdges : m <= n
        IN  /\ Len(EdgeCalls) <= k - 1
            /\ pc \notin {"commit", "done"}
            /\ ex.kind \in {"malformed", "unknown_node"} =>
                  /\ i = k
                  /\ Len(EdgeCalls) = k - 1
                  /\ Len(NodeCalls) = Len(nodes)

----------------------------------------------------------------------------
(* Runs over descriptions whose items all carry the property key "name"    *)
(* with different values, and whose labels may be the empty string.        *)

ItemsNodePool ==
    {Node("Person", <<<<"name", "\"a\"">>>>),
     Node("Person", <<<<"name", "\"b\"">>>>),
     Node("",       <<<<"name", "\"a\"">>>>)}

ItemsEdgeIdPool ==
    {<<"A", "-", ">", "B">>,
     <<"A", "<", "-", "B">>,
     <<"A", "-", ">", "A">>}

ItemsEdgePool ==
    {Edge("KNOWS", <<<<"name", "\"c\"">>>>),
     Edge("",      <<>>)}

ItemsInit ==
    /\ args_clear \in BOOLEAN
    /\ nodes \in DictsUpTo(NodeIdPool, ItemsNodePool, MaxNodes)
    /\ edges \in DictsUpTo(ItemsEdgeIdPool, ItemsEdgePool, MaxEdges)
    /\ pc = "main"
    /\ i = 1
    /\ tx = 0
    /\ calls = <<>>
    /\ ex = NoException
    /\ StoreIdle
    /\ PureIdle

ItemsSpec == ItemsInit /\ [][Next]_vars

\* The parameter names of the placeholders among pieces from..to.
ClauseNames(q, from, to) == {q[n + 1] : n \in {m \in from..to : q[m] = "$"}}

\* C12: in every edge-create statement issued, the parameter names of the
\* left endpoint's clause, of the right endpoint's clause and of the edge's
\* clause are pairwise disjoint, together they are the keys of the combined
\* mapping, and through that mapping every clause binds each of its keys to
\* the value the key has on the item in that role.
C12_ParameterNamesDisjoint ==
    \A k \in DOMAIN EdgeCalls :
        LET m   == EDGE_REGEX_match(edges[k][1])
            q   == EdgeCalls[k].query
            p   == EdgeCalls[k].params
            m2  == SecondMatch(q)
            c   == CreateAt(q)
            one == ClauseNames(q, 2, m2 - 1)
            two == ClauseNames(q, m2 + 1, c - 1)
            own == ClauseNames(q, c + 1, Len(q))
        IN  /\ one \cap two = {} /\ one \cap own = {} /\ two \cap own = {}
            /\ one \cup two \cup own = DOMAIN p
            /\ ClauseKV(q, p, 2) = NonNull(DictGet(nodes, m.group1))
            /\ ClauseKV(q, p, m2 + 1) = NonNull(DictGet(nodes, m.group3))
            /\ ClauseKV(q, p, c + 2) = NonNull(edges[k][2])

\* An edge-create statement whose two endpoints and edge carry the key "name"
\* with three different values.
C12_Witness ==
    \E k \in DOMAIN EdgeCalls :
        /\ edges[k][1] = <<"A", "-", ">", "B">>
        /\ NonNull(DictGet(nodes, <<"A">>)) = {<<"name", "\"a\"">>}
        /\ NonNull(DictGet(nodes, <<"B">>)) = {<<"name", "\"b\"">>}
        /\ NonNull(edges[k][2]) = {<<"name", "\"c\"">>}
        /\ Cardinality(DOMAIN EdgeCalls[k].params) = 3

\* C15 (as claimed): no statement handed to the store has the empty string in
\* a label position, be it of a created node, of a matched endpoint or of the
\* created relationship.
C15_NoEmptyLabelSent ==
    \A n \in DOMAIN calls :
        LET q == calls[n].query
        IN  /\ IsNodeCreate(calls[n]) => q[5] # ""
            /\ IsEdgeCreate(calls[n]) =>
                  /\ q[5] # ""
                  /\ q[SecondMatch(q) + 4] # ""
                  /\ q[CreateAt(q) + 5] # ""

----------------------------------------------------------------------------
(* Successive invocations of main with the same arguments on one store,    *)
(* each begun after the one before it has ended in success.                *)

RerunNodePool ==
    {Node("Person", <<<<"name", "\"a\"">>, <<"note", None>>>>),
     Node("City",   <<<<"pop", "0">>>>)}

RerunEdgeIdPool ==
    {<<"A", "-", ">", "B">>,
     <<"B", "<", "-", "B">>,
     <<"A", "-", ">", "Z">>}

RerunEdgePool == {Edge("KNOWS", <<>>)}

\* What the store may hold before the first invocation: nothing, or a node
\* like one of the descriptions' with a relationship to itself.
StorePool ==
    {EmptyStore,
     [nodes |-> <<[label |-> "Person", props |-> {<<"name", "\"a\"">>}]>>,
      rels  |-> BagAdd(EmptyBag, {[src |-> 1, dst |-> 1, label |-> "OLD", props |-> {}]})]}

RerunInit ==
    /\ args_clear \in BOOLEAN
    /\ nodes \in DictsUpTo(NodeIdPool, RerunNodePool, MaxNodes)
    /\ edges \in DictsUpTo(RerunEdgeIdPool, RerunEdgePool, MaxEdges)
    /\ pc = "main"
    /\ i = 1
    /\ tx = 0
    /\ calls = <<>>
    /\ ex = NoException
    /\ committed \in StorePool
    /\ working = committed
    /\ begun = committed
    /\ past = <<>>
    /\ PureIdle

\* lines 196-197: the program is run again, with the same arguments
Rerun ==
    /\ pc = "done"
    /\ Len(past) + 1 < MaxRuns
    /\ past' = Append(past, [begun |-> begun, end |-> committed])
    /\ begun' = committed
    /\ working' = committed
    /\ pc' = "main"
    /\ i' = 1
    /\ tx' = 0
    /\ calls' = <<>>
    /\ ex' = NoException
    /\ UNCHANGED <<args_clear, nodes, edges, committed, pureVars>>

RerunNext == Next \/ Rerun

RerunSpec == RerunInit /\ [][RerunNext]_vars

\* The nodes of the description as the store holds them once created.
DescribedNodes ==
    [n \in DOMAIN nodes |->
        [label |-> nodes[n][2].label, props |-> NonNull(nodes[n][2])]]

\* C14: with clearing disabled, a run that ended in success has left the
\* committed nodes it found in place and added one node per node of the
\* description after them; so the second of two successive successful runs
\* from an empty store commits each node of the description twice, the first
\* run's nodes among them unchanged.
C14_RerunDuplicatesNodes ==
    (pc = "done" /\ ~args_clear) =>
        /\ committed.nodes = begun.nodes \o DescribedNodes
        /\ (Len(past) = 1 /\ past[1].begun = EmptyStore) =>
              /\ past[1].end.nodes = DescribedNodes
              /\ committed.nodes = DescribedNodes \o DescribedNodes
              /\ Len(committed.nodes) = 2 * Len(nodes)

\* The second successful run, without clearing, of a description of two nodes
\* on a store that was empty before the first.
C14_Witness ==
    /\ pc = "done"
    /\ ~args_clear
    /\ Len(past) = 1
    /\ past[1].begun = EmptyStore
    /\ Len(nodes) = 2
    /\ Len(committed.nodes) = 4

\* C17: with clearing enabled, a run that ended in success has committed
\* exactly the nodes of the description, one each, and relationships between
\* those only, whatever the store held before; and when the run before it
\* was such a run too, the store content is what that run left.
C17_ClearedRunIdempotent ==
    (pc = "done" /\ args_clear) =>
        /\ committed.nodes = DescribedNodes
        /\ \A r \in DOMAIN committed.rels :
              /\ r.src \in DOMAIN nodes /\ r.dst \in DOMAIN nodes
              /\ r.label # "OLD"
        /\ past # <<>> => committed = past[Len(past)].end

\* The second successful cleared run of a description of two nodes and an
\* edge, on a store that was not empty before the first.
C17_Witness ==
    /\ pc = "done"
    /\ args_clear
    /\ Len(past) = 1
    /\ past[1].begun # EmptyStore
    /\ Len(nodes) = 2
    /\ committed.rels # EmptyBag
    /\ committed = past[1].end

----------------------------------------------------------------------------
(* Runs over descriptions whose nodes have the same label and the same     *)
(* non-null properties, written in the same or in another order, with or   *)
(* without a None-valued key more, and whose edges name either node at     *)
(* either end.                                                             *)

AlikeNodePool ==
    {Node("Person", <<<<"x", "1">>, <<"y", "2">>>>),
     Node("Person", <<<<"y", "2">>, <<"x", "1">>, <<"z", None>>>>),
     Node("Person", <<<<"x", "1">>, <<"z", None>>, <<"y", "2">>>>),
     Node("City",   <<<<"x", "1">>, <<"y", "2">>>>)}

AlikeEdgeIdPool ==
    {<<"A", "-", ">", "B">>,
     <<"B", "-", ">", "A">>,
     <<"B", "-", ">", "B">>,
     <<"A", "<", "-", "B">>}

AlikeEdgePool == {Edge("KNOWS", <<<<"w", "1">>>>)}

AlikeInit ==
    /\ args_clear \in BOOLEAN
    /\ nodes \in DictsUpTo(NodeIdPool, AlikeNodePool, MaxNodes)
    /\ edges \in DictsUpTo(AlikeEdgeIdPool, AlikeEdgePool, MaxEdges)
    /\ pc = "main"
    /\ i = 1
    /\ tx = 0
    /\ calls = <<>>
    /\ ex = NoException
    /\ StoreIdle
    /\ PureIdle

AlikeSpec == AlikeInit /\ [][Next]_vars

\* Two nodes are alike for a match: same label, same non-null properties.
Alike(a, b) == a.label = b.label /\ NonNull(a) = NonNull(b)

\* The non-null properties of an item in the order the description gives them.
NonNullInOrder(item) == SelectSeq(item.properties, LAMBDA kv : kv[2] # "null")

\* Alike, and the non-null properties are written in the same order.
AlikeInOrder(a, b) == a.label = b.label /\ NonNullInOrder(a) = NonNullInOrder(b)

\* The text of the match clause of either role in an edge-create statement.
FirstClause(q) == SubSeq(q, 1, SecondMatch(q) - 1)

SecondClause(q) == SubSeq(q, SecondMatch(q), CreateAt(q) - 1)

\* The parameters bound for the item whose opening bracket is at open.
ClauseParams(q, params, open) ==
    [name \in {q[n + 3] : n \in KeyPositions(q, open + 6)} |-> params[name]]

\* The node of the description at the left and at the right end of the k-th edge.
LeftNode(k) == DictGet(nodes, EDGE_REGEX_match(edges[k][1]).group1)

RightNode(k) == DictGet(nodes, EDGE_REGEX_match(edges[k][1]).group3)

\* C19 (as claimed): in two edge-create statements issued, endpoints of the
\* same role that are alike (same label, same non-null properties) have the
\* same match clause text.
C19_AlikeNodesSameText ==
    \A k, l \in DOMAIN EdgeCalls :
        /\ Alike(LeftNode(k), LeftNode(l)) =>
              FirstClause(EdgeCalls[k].query) = FirstClause(EdgeCalls[l].query)
        /\ Alike(RightNode(k), RightNode(l)) =>
              SecondClause(EdgeCalls[k].query) = SecondClause(EdgeCalls[l].query)

\* C19 (amended): in two edge-create statements issued, endpoints of the same
\* role that are alike have match clauses with the same label, the same
\* key-value pairs and the same bound parameters; the clause texts are the
\* same when the non-null properties of the two nodes are, in addition,
\* written in the same order; and two edges of the same label, properties and
\* direction whose endpoints are alike in order on both sides have the same
\* statement text and the same parameters.
C19_AlikeNodesSameMatch ==
    \A k, l \in DOMAIN EdgeCalls :
        LET q  == EdgeCalls[k].query
            r  == EdgeCalls[l].query
            p  == EdgeCalls[k].params
            o  == EdgeCalls[l].params
            q2 == SecondMatch(q) + 1
            r2 == SecondMatch(r) + 1
        IN  /\ Alike(LeftNode(k), LeftNode(l)) =>
                  /\ q[5] = r[5]
                  /\ ClauseKV(q, p, 2) = ClauseKV(r, o, 2)
                  /\ ClauseKV(q, p, 2) = NonNull(LeftNode(l))
                  /\ ClauseParams(q, p, 2) = ClauseParams(r, o, 2)
            /\ Alike(RightNode(k), RightNode(l)) =>
                  /\ q[q2 + 3] = r[r2 + 3]
                  /\ ClauseKV(q, p, q2) = ClauseKV(r, o, r2)
                  /\ ClauseKV(q, p, q2) = NonNull(RightNode(l))
                  /\ ClauseParams(q, p, q2) = ClauseParams(r, o, r2)
            /\ AlikeInOrder(LeftNode(k), LeftNode(l)) =>
                  FirstClause(q) = FirstClause(r)
            /\ AlikeInOrder(RightNode(k), RightNode(l)) =>
                  SecondClause(q) = SecondClause(r)
            /\ (/\ edges[k][2] = edges[l][2]
                /\ EDGE_REGEX_match(edges[k][1]).group2 = EDGE_REGEX_match(edges[l][1]).group2
                /\ AlikeInOrder(LeftNode(k), LeftNode(l))
                /\ AlikeInOrder(RightNode(k), RightNode(l)))
               => q = r /\ p = o

\* The edges A->B and B->A were issued where A and B are different nodes,
\* alike, one with a None-valued key more and its non-null keys in the other
\* order: either node is the left endpoint of one edge and the right endpoint
\* of the other.
C19_Witness ==
    /\ Len(EdgeCalls) = 2
    /\ edges[1][1] = <<"A", "-", ">", "B">>
    /\ edges[2][1] = <<"B", "-", ">", "A">>
    /\ Alike(LeftNode(1), LeftNode(2))
    /\ ~AlikeInOrder(LeftNode(1), LeftNode(2))
    /\ \E kv \in Range(LeftNode(2).properties) : kv[2] = None
    /\ Len(NonNullInOrder(LeftNode(1))) = 2

----------------------------------------------------------------------------
(* The grammar on its own: every string over GrammarAlphabet of at most    *)
(* MaxEidLen characters is handed to EDGE_REGEX.match.                     *)

GrammarAlphabet == {"a", "b", "-", "<", ">", "!"}

GrammarInit ==
    /\ MainIdle
    /\ eid_in \in SeqsUpTo(GrammarAlphabet, MaxEidLen)
    /\ match = NoMatch
    /\ item_in = IdleItem
    /\ ident_in = ""
    /\ qs = IdleQuery
    /\ fpc = "idle"

\* line 128
Match ==
    /\ fpc = "idle"
    /\ match' = EDGE_REGEX_match(eid_in)
    /\ fpc' = "called"
    /\ UNCHANGED <<mainVars, eid_in, queryVars>>

GrammarSpec == GrammarInit /\ [][Match]_vars

NoToken(s) ==
    \A n \in 1..(Len(s) - 1) : <<s[n], s[n + 1]>> \notin {<<"-", ">">>, <<"<", "-">>}

\* C6: when the edge id is L+t+R with L and R non-empty and of id characters
\* only, the match succeeds with group 1 = L, group 3 = R and a direction of
\* RIGHT for "->" and LEFT for "<-"; an id without a direction token does not
\* match.
C6_ParseSplitsAtToken ==
    fpc = "called" =>
        /\ \A k \in SplitsOf(eid_in) :
              /\ match.matched
              /\ match.group1 = SubSeq(eid_in, 1, k)
              /\ match.group3 = SubSeq(eid_in, k + 3, Len(eid_in))
              /\ DIRECTION_NAME_TABLE(match.group2) =
                    (IF <<eid_in[k + 1], eid_in[k + 2]>> = <<"-", ">">>
                     THEN "RIGHT" ELSE "LEFT")
        /\ NoToken(eid_in) => ~match.matched

\* The id "a-" + "->" + "b", whose left id ends with a hyphen, was parsed.
C6_Witness ==
    /\ fpc = "called"
    /\ eid_in = <<"a", "-", "-", ">", "b">>
    /\ match.matched
    /\ match.group1 = <<"a", "-">>

----------------------------------------------------------------------------
(* The serialiser on its own: query_str on every item of at most MaxProps  *)
(* properties, under every role identifier the builders use.               *)

PropertyKeys == {"name", "note", "k"}

\* JSON literals: null, a falsy number, a falsy string, a string.
PropertyValues == {None, "0", "\"\"", "\"a\""}

Identifiers == {"n", "n1", "n2"}

SerialiserInit ==
    /\ MainIdle
    /\ eid_in = <<>>
    /\ match = NoMatch
    /\ item_in \in {[cls |-> c, label |-> "L", properties |-> d] :
                       c \in {"Node", "Edge"},
                       d \in DictsUpTo(PropertyKeys, PropertyValues, MaxProps)}
    /\ ident_in \in Identifiers
    /\ qs = IdleQuery
    /\ fpc = "idle"

\* lines 33-57
Serialise ==
    /\ fpc = "idle"
    /\ qs' = query_str(item_in, ident_in)
    /\ fpc' = "called"
    /\ UNCHANGED <<mainVars, parseVars, item_in, ident_in>>

SerialiserSpec == SerialiserInit /\ [][Serialise]_vars

Placeholders(text) ==
    {text[n + 1] : n \in {m \in 1..(Len(text) - 1) : text[m] = "$"}}

EmittedKeys(text) ==
    {text[n - 2] : n \in {m \in 3..Len(text) : text[m] = "$"}}

\* C8: after query_str, a key whose value is None is neither an emitted key nor
\* a placeholder of the text nor a key of the bound parameters; a key whose
\* value is not None is emitted with its placeholder, which is bound to the
\* key's own value; and the text has no placeholder but the bound ones.
C8_NullsOmittedEverywhere ==
    fpc = "called" =>
        /\ \A n \in DOMAIN item_in.properties :
              LET k    == item_in.properties[n][1]
                  v    == item_in.properties[n][2]
                  name == ident_in \o "_" \o k
              IN  IF v = "null"
                  THEN /\ k \notin EmittedKeys(qs.text)
                       /\ name \notin Placeholders(qs.text)
                       /\ name \notin DOMAIN qs.params
                  ELSE /\ \E m \in 1..(Len(qs.text) - 3) :
                             /\ qs.text[m] = k
                             /\ qs.text[m + 2] = "$"
                             /\ qs.text[m + 3] = name
                       /\ name \in DOMAIN qs.params
                       /\ qs.params[name] = v
        /\ Placeholders(qs.text) = DOMAIN qs.params

\* query_str was applied to an item with a None-valued key and a key whose
\* value is falsy but not None.
C8_Witness ==
    /\ fpc = "called"
    /\ \E kv \in Range(item_in.properties) : kv[2] = None
    /\ \E kv \in Range(item_in.properties) : kv[2] = "0"
    /\ Cardinality(DOMAIN qs.params) = 1

====
